---- MODULE Spec2Model ----
(***************************************************************************)
(* Model of MemoryCache (src/src/memory.ts): an in-memory key/value cache  *)
(* with LRU/FIFO eviction, TTL expiry, a periodic sweep and approximate    *)
(* memory accounting.  One action per public operation; each action is the *)
(* whole handler, including the eviction and memory-limit code it calls.   *)
(***************************************************************************)
EXTENDS Integers, Sequences, FiniteSets, TLC

\* ---------------------------------------------------------------- bounds
MaxSteps == 4   \* calls, timer firings and clock ticks in one run
MaxGlobLen == 2 \* characters in a key or pattern of the glob runs
MaxFacadeCalls == 3 \* calls in one run through the Cache facades

\* ------------------------------------------------------- program constants
BytesPerChar     == 2
MetadataOverhead == 64

\* ------------------------------------------------------------ input sets
\* Keys are strings; the empty string is a legal key (test "should handle
\* invalid keys gracefully").
Keys == {"", "a", "b"}

\* Values: the string 'a', a string of 20 characters, the JavaScript null
\* and an object that refers to itself.
Null     == "null"
Circular == "circular"
Values   == {"a", "big", Null, Circular}

\* The optional ttl argument: <<>> is "not provided", <<t>> is ttl = t.
\* The (value, ttl) pairs set is called with: every value and every ttl
\* occurs, the plain string with the default and with a positive ttl.  The
\* value and the ttl of a call never meet in the code: the value is only
\* stored, returned and measured, the ttl only decides expiresAt.
SetArgs == { <<"a", <<>> >>, <<"a", <<2>> >>, <<"big", <<>> >>,
             <<Null, <<-1>> >>, <<Circular, <<>> >> }

\* The characters of glob keys and patterns: two letters, the two glob
\* wildcards, a regular-expression metacharacter and a line terminator.
Alphabet == {"a", "b", ".", "*", "?", "\n"}

\* The characters globToRegex escapes, and the characters the dot of a
\* regular expression does not match.
EscapeClass     == {".", "+", "^", "$", "{", "}", "(", ")", "|", "[", "]", "\\"}
LineTerminators == {"\n", "\r"}

\* The milliseconds that pass in one clock tick: a tick passes the expiry
\* time of a ttl of 1 and reaches that of a ttl of 2.
TickSizes == {2}

\* Configurations.  maxMemory 100 holds one small entry and not two, and not
\* one "big" entry; 1000 holds everything a run can store.  The three numeric
\* options are combined pairwise (every pair of option values occurs), under
\* both policies.
Policies == {"lru", "fifo"}
Limits   == { [maxSize |-> 1, maxMemory |-> 100,  defaultTTL |-> 1],
              [maxSize |-> 1, maxMemory |-> 1000, defaultTTL |-> 0],
              [maxSize |-> 2, maxMemory |-> 100,  defaultTTL |-> 0],
              [maxSize |-> 2, maxMemory |-> 1000, defaultTTL |-> 1] }

\* expiresAt: undefined.  Date.now() is positive, so a defined expiresAt is
\* never 0; `entry.expiresAt && ...` is false for exactly this value.
NoExpiry == 0

VARIABLES
  store,           \* Map<string, CacheEntry>, as the sequence of its entries
                   \* in iteration (insertion) order, each carrying its key
  accessOrder,     \* Map<string, number>, as a sequence of [key, time]
  nextAccessTime,
  maxSize, maxMemory, defaultTTL, evictionPolicy,
  hits, misses, evictions,
  cleanupTimer,    \* TRUE while the interval timer is armed
  clearIntervalCalls, \* how often clearInterval has been called
  now,             \* Date.now()
  lastOp,          \* the last call made and what it returned
  evictLog,        \* the evictOne calls of the last call that removed a key
  hung,            \* TRUE once a call has entered a loop it never leaves
  steps            \* the number of steps taken so far

cfgVars == <<maxSize, maxMemory, defaultTTL, evictionPolicy>>
timer == <<cleanupTimer, clearIntervalCalls>>
vars == <<store, accessOrder, nextAccessTime, maxSize, maxMemory, defaultTTL,
          evictionPolicy, hits, misses, evictions, cleanupTimer,
          clearIntervalCalls, now, lastOp, evictLog, hung, steps>>

\* ------------------------------------------------------------ Map helpers
MapKeys(m) == {m[i].key : i \in 1..Len(m)}

MapHas(m, k) == k \in MapKeys(m)

MapIndex(m, k) == CHOOSE i \in 1..Len(m) : m[i].key = k

MapGet(m, k) == m[MapIndex(m, k)]

\* Map.prototype.set: an existing key keeps its position, a new key is
\* appended.
MapSet(m, e) ==
  IF MapHas(m, e.key)
    THEN [m EXCEPT ![MapIndex(m, e.key)] = e]
    ELSE Append(m, e)

MapDelete(m, k) == SelectSeq(m, LAMBDA e : e.key # k)

\* ------------------------------------------------------ memory accounting
\* JSON.stringify(value).length for the modelled values.
JsonLength(v) ==
  CASE v = "a"   -> 3
    [] v = "big" -> 22
    [] v = Null  -> 4

\* JSON.stringify throws a TypeError on a self-referential structure.
StringifyThrows(v) == v = Circular

EstimateThrows(s) == \E i \in 1..Len(s) : StringifyThrows(s[i].value)

RECURSIVE EstimateMemoryUsage(_)
EstimateMemoryUsage(s) ==
  IF s = <<>> THEN 0
  ELSE Len(Head(s).key) * BytesPerChar
       + JsonLength(Head(s).value) * BytesPerChar
       + MetadataOverhead
       + EstimateMemoryUsage(Tail(s))

\* ------------------------------------------------------------------- TTL
EffectiveTTL(ttl, dflt) == IF ttl = <<>> THEN dflt ELSE ttl[1]

\* Mutant of ExpiresAt: a ttl of 0 is given an expiry time too.
ExpiresAtFromZero(t, effectiveTTL) ==
  IF effectiveTTL >= 0 THEN t + effectiveTTL ELSE NoExpiry

ExpiresAt(t, effectiveTTL) ==
  IF effectiveTTL > 0 THEN t + effectiveTTL ELSE NoExpiry

\* Mutant of IsExpired: an entry expires at, not after, its expiry time.
IsExpiredAtDeadline(entry, t) ==
  entry.expiresAt # NoExpiry /\ t >= entry.expiresAt

IsExpired(entry, t) == entry.expiresAt # NoExpiry /\ t > entry.expiresAt

\* -------------------------------------------------------------- eviction
\* The key the loops of evictOne end with, for m a sequence of [key, rank]:
\* the first key, in iteration order, whose rank is strictly smaller than
\* every earlier one (best = -1 stands for Infinity); '' for no entry.
RECURSIVE ScanMin(_, _, _)
ScanMin(m, best, found) ==
  IF m = <<>> THEN found
  ELSE IF best = -1 \/ Head(m).rank < best
    THEN ScanMin(Tail(m), Head(m).rank, Head(m).key)
    ELSE ScanMin(Tail(m), best, found)

ByAccessTime(ao) ==
  [i \in 1..Len(ao) |-> [key |-> ao[i].key, rank |-> ao[i].time]]

ByCreatedAt(s) ==
  [i \in 1..Len(s) |-> [key |-> s[i].key, rank |-> s[i].createdAt]]

\* Mutant of KeyToEvict: the lru policy ranks by creation time as well.
KeyToEvictByCreation(s, ao, policy) == ScanMin(ByCreatedAt(s), -1, "")

\* Mutant of KeyToEvict: the fifo policy ranks by the time of the last read.
KeyToEvictByAccess(s, ao, policy) ==
  IF policy = "lru"
    THEN ScanMin(ByAccessTime(ao), -1, "")
    ELSE ScanMin([i \in 1..Len(s) |->
                   [key |-> s[i].key, rank |-> s[i].accessedAt]], -1, "")

KeyToEvict(s, ao, policy) ==
  IF policy = "lru"
    THEN ScanMin(ByAccessTime(ao), -1, "")
    ELSE ScanMin(ByCreatedAt(s), -1, "")

\* evictOne on the mutable part of the cache, st = [store, accessOrder,
\* evictions, log, hang, raised].  `if (keyToEvict)` is false for the empty
\* string.  A call that removes a key appends to the log the key, the phase
\* of set it ran in, and the maps before and the table after the removal.
EvictOne(st, policy, phase) ==
  IF Len(st.store) = 0 THEN st
  ELSE LET k == KeyToEvict(st.store, st.accessOrder, policy) IN
    IF k # ""
      THEN [st EXCEPT
              !.store       = MapDelete(st.store, k),
              !.accessOrder = MapDelete(st.accessOrder, k),
              !.evictions   = st.evictions + 1,
              !.log         = Append(st.log,
                                [key |-> k, phase |-> phase,
                                 store |-> st.store,
                                 accessOrder |-> st.accessOrder,
                                 after |-> MapDelete(st.store, k)])]
      ELSE st

\* The loop of checkMemoryLimits: currentMemory is read once, before the
\* loop.  The result carries hang = TRUE when an iteration removes nothing,
\* since the loop condition is then true forever.
RECURSIVE MemoryLoop(_, _, _, _)
MemoryLoop(st, currentMemory, limit, policy) ==
  IF currentMemory > limit /\ Len(st.store) > 0
    THEN LET n == EvictOne(st, policy, "memory") IN
      IF n = st THEN [st EXCEPT !.hang = TRUE]
      ELSE MemoryLoop(n, currentMemory, limit, policy)
    ELSE st

\* checkMemoryLimits; outcome is "raised" when estimateMemoryUsage throws.
CheckMemoryLimits(st, limit, policy) ==
  IF EstimateThrows(st.store)
    THEN [st EXCEPT !.raised = TRUE]
    ELSE MemoryLoop(st, EstimateMemoryUsage(st.store), limit, policy)

\* ------------------------------------------------------- call records
\* What lastOp holds: the call, its arguments, how it ended ("returned",
\* "raised", or "hang" for a call that never returns), the branch a lookup
\* took ("absent", "expired", "hit") and the value it returned; for keys
\* the pattern and the keys returned, for stats the record returned.
NoStats ==
  [size |-> 0, maxSize |-> 0, hits |-> 0, misses |-> 0,
   hitRate |-> [num |-> 0, den |-> 1], evictions |-> 0]

Call(op) ==
  [op |-> op, key |-> "", value |-> Null, ttl |-> <<>>, pattern |-> <<>>,
   outcome |-> "returned", path |-> "",
   retVal |-> Null, retBool |-> FALSE, retNum |-> 0, retKeys |-> <<>>,
   retStats |-> NoStats]

\* ------------------------------------------------------------------ Init
\* The state after new MemoryCache(c): the constructor copies the options,
\* checks none of them, arms the timer and returns.
Constructed(c) ==
  /\ store = <<>>
  /\ accessOrder = <<>>
  /\ nextAccessTime = 1
  /\ maxSize = c.maxSize
  /\ maxMemory = c.maxMemory
  /\ defaultTTL = c.defaultTTL
  /\ evictionPolicy \in Policies
  /\ hits = 0
  /\ misses = 0
  /\ evictions = 0
  /\ cleanupTimer = TRUE
  /\ clearIntervalCalls = 0
  /\ now = 1
  /\ lastOp = Call("new")
  /\ evictLog = <<>>
  /\ hung = FALSE
  /\ steps = 0

Init == \E c \in Limits : Constructed(c)

\* A step is taken while no call is stuck and the run has steps left.
Running ==
  /\ ~hung
  /\ steps < MaxSteps
  /\ steps' = steps + 1

\* ------------------------------------------------------------------- get
\* The state part of get(key): [store, accessOrder, nextAccessTime, hits,
\* misses, ret].
\* Mutant of GetEffect: a lookup that finds its key expired removes the
\* entry and leaves the key in the order index.
GetEffectKeepsIndex(k) ==
  IF ~MapHas(store, k)
    THEN [store |-> store, accessOrder |-> accessOrder,
          nextAccessTime |-> nextAccessTime,
          hits |-> hits, misses |-> misses + 1, ret |-> Null,
          path |-> "absent"]
  ELSE LET entry == MapGet(store, k) IN
    IF IsExpired(entry, now)
      THEN [store |-> MapDelete(store, k),
            accessOrder |-> accessOrder,
            nextAccessTime |-> nextAccessTime,
            hits |-> hits, misses |-> misses + 1, ret |-> Null,
            path |-> "expired"]
      ELSE [store |-> MapSet(store, [entry EXCEPT !.accessedAt = now]),
            accessOrder |-> IF evictionPolicy = "lru"
                              THEN MapSet(accessOrder,
                                     [key |-> k, time |-> nextAccessTime])
                              ELSE accessOrder,
            nextAccessTime |-> IF evictionPolicy = "lru"
                                 THEN nextAccessTime + 1
                                 ELSE nextAccessTime,
            hits |-> hits + 1, misses |-> misses, ret |-> entry.value,
            path |-> "hit"]

\* get on the table s and the order index ao.
GetEffectOn(s, ao, k) ==
  IF ~MapHas(s, k)
    THEN [store |-> s, accessOrder |-> ao,
          nextAccessTime |-> nextAccessTime,
          hits |-> hits, misses |-> misses + 1, ret |-> Null,
          path |-> "absent"]
  ELSE LET entry == MapGet(s, k) IN
    IF IsExpired(entry, now)
      THEN [store |-> MapDelete(s, k),
            accessOrder |-> MapDelete(ao, k),
            nextAccessTime |-> nextAccessTime,
            hits |-> hits, misses |-> misses + 1, ret |-> Null,
            path |-> "expired"]
      ELSE [store |-> MapSet(s, [entry EXCEPT !.accessedAt = now]),
            accessOrder |-> IF evictionPolicy = "lru"
                              THEN MapSet(ao,
                                     [key |-> k, time |-> nextAccessTime])
                              ELSE ao,
            nextAccessTime |-> IF evictionPolicy = "lru"
                                 THEN nextAccessTime + 1
                                 ELSE nextAccessTime,
            hits |-> hits + 1, misses |-> misses, ret |-> entry.value,
            path |-> "hit"]

GetEffect(k) == GetEffectOn(store, accessOrder, k)

Get(k) ==
  /\ Running
  /\ LET r == GetEffect(k) IN
       /\ store' = r.store
       /\ accessOrder' = r.accessOrder
       /\ nextAccessTime' = r.nextAccessTime
       /\ hits' = r.hits
       /\ misses' = r.misses
       /\ lastOp' = [Call("get") EXCEPT !.key = k, !.path = r.path,
                                         !.retVal = r.ret]
  /\ evictLog' = <<>>
  /\ UNCHANGED <<cfgVars, evictions, timer, now, hung>>

\* Mutant of Has: a membership test that reads the table and touches
\* neither the counters nor the order index.
HasPeek(k) ==
  /\ Running
  /\ lastOp' = [Call("has") EXCEPT
                 !.key = k,
                 !.path = GetEffect(k).path,
                 !.retBool = (GetEffect(k).ret # Null)]
  /\ evictLog' = <<>>
  /\ UNCHANGED <<store, accessOrder, nextAccessTime, hits, misses,
                 cfgVars, evictions, timer, now, hung>>

\* has(key): return this.get(key) !== null
Has(k) ==
  /\ Running
  /\ LET r == GetEffect(k) IN
       /\ store' = r.store
       /\ accessOrder' = r.accessOrder
       /\ nextAccessTime' = r.nextAccessTime
       /\ hits' = r.hits
       /\ misses' = r.misses
       /\ lastOp' = [Call("has") EXCEPT !.key = k, !.path = r.path,
                                         !.retBool = (r.ret # Null)]
  /\ evictLog' = <<>>
  /\ UNCHANGED <<cfgVars, evictions, timer, now, hung>>

\* ------------------------------------------------------------------- set
\* set on the table s and the order index ao.
SetEffectOn(s, ao, k, v, ttl) ==
  LET effectiveTTL == EffectiveTTL(ttl, defaultTTL)
      entry == [key |-> k, value |-> v, createdAt |-> now,
                accessedAt |-> now,
                expiresAt |-> ExpiresAt(now, effectiveTTL),
                ttl |-> effectiveTTL]
      st0 == [store |-> s, accessOrder |-> ao,
              evictions |-> evictions, log |-> <<>>,
              hang |-> FALSE, raised |-> FALSE]
      st1 == IF ~MapHas(s, k) /\ Len(s) >= maxSize
               THEN EvictOne(st0, evictionPolicy, "capacity")
               ELSE st0
      st2 == [st1 EXCEPT
                !.store = MapSet(st1.store, entry),
                !.accessOrder =
                   IF evictionPolicy = "lru"
                     THEN MapSet(st1.accessOrder,
                            [key |-> k, time |-> nextAccessTime])
                     ELSE st1.accessOrder]
  IN CheckMemoryLimits(st2, maxMemory, evictionPolicy)

SetEffect(k, v, ttl) == SetEffectOn(store, accessOrder, k, v, ttl)

Set(k, v, ttl) ==
  /\ Running
  /\ LET r == SetEffect(k, v, ttl) IN
       /\ store' = r.store
       /\ accessOrder' = r.accessOrder
       /\ evictions' = r.evictions
       /\ evictLog' = r.log
       /\ hung' = r.hang
       /\ lastOp' = [Call("set") EXCEPT
                      !.key = k, !.value = v, !.ttl = ttl,
                      !.outcome = IF r.hang THEN "hang"
                                  ELSE IF r.raised THEN "raised"
                                  ELSE "returned"]
  /\ nextAccessTime' = IF evictionPolicy = "lru"
                         THEN nextAccessTime + 1 ELSE nextAccessTime
  /\ UNCHANGED <<cfgVars, hits, misses, timer, now>>

\* ---------------------------------------------------------------- delete
\* Mutant of Delete: the order-index entry of the key is left behind.
DeleteKeepsIndex(k) ==
  /\ Running
  /\ store' = MapDelete(store, k)
  /\ lastOp' = [Call("delete") EXCEPT !.key = k,
                                        !.retBool = MapHas(store, k)]
  /\ evictLog' = <<>>
  /\ UNCHANGED <<cfgVars, accessOrder, nextAccessTime, hits, misses,
                 evictions, timer, now, hung>>

Delete(k) ==
  /\ Running
  /\ store' = MapDelete(store, k)
  /\ accessOrder' = MapDelete(accessOrder, k)
  /\ lastOp' = [Call("delete") EXCEPT !.key = k,
                                        !.retBool = MapHas(store, k)]
  /\ evictLog' = <<>>
  /\ UNCHANGED <<cfgVars, nextAccessTime, hits, misses, evictions,
                 timer, now, hung>>

\* ----------------------------------------------------------------- clear
\* Mutant of Clear: the eviction count is kept.
ClearKeepsEvictions ==
  /\ Running
  /\ store' = <<>>
  /\ accessOrder' = <<>>
  /\ nextAccessTime' = 1
  /\ hits' = 0
  /\ misses' = 0
  /\ lastOp' = Call("clear")
  /\ evictLog' = <<>>
  /\ UNCHANGED <<cfgVars, evictions, timer, now, hung>>

Clear ==
  /\ Running
  /\ store' = <<>>
  /\ accessOrder' = <<>>
  /\ nextAccessTime' = 1
  /\ hits' = 0
  /\ misses' = 0
  /\ evictions' = 0
  /\ lastOp' = Call("clear")
  /\ evictLog' = <<>>
  /\ UNCHANGED <<cfgVars, timer, now, hung>>

\* --------------------------------------------------------------- cleanup
\* Deleting the current entry during Map iteration is safe in JavaScript;
\* the loop visits every entry present at the start once.
\* Mutant of CleanupStore: an entry not read at the current time is removed
\* too.
CleanupStoreDropsIdle(s, t) ==
  SelectSeq(s, LAMBDA e : ~IsExpired(e, t) /\ e.accessedAt = t)

CleanupStore(s, t) == SelectSeq(s, LAMBDA e : ~IsExpired(e, t))

\* Mutant of CleanupOrder: the order index is left as it is.
CleanupOrderKeepsAll(ao, s, t) == ao

CleanupOrder(ao, s, t) ==
  SelectSeq(ao, LAMBDA a : ~(MapHas(s, a.key) /\ IsExpired(MapGet(s, a.key), t)))

\* Mutant of Cleanup: the entries scanned are counted, not the removed.
CleanupCountsScanned ==
  /\ Running
  /\ store' = CleanupStore(store, now)
  /\ accessOrder' = CleanupOrder(accessOrder, store, now)
  /\ lastOp' = [Call("cleanup") EXCEPT !.retNum = Len(store)]
  /\ evictLog' = <<>>
  /\ UNCHANGED <<cfgVars, nextAccessTime, hits, misses, evictions,
                 timer, now, hung>>

\* Mutant of Cleanup: the removed entries are counted as evictions.
CleanupCountsEvictions ==
  /\ Running
  /\ store' = CleanupStore(store, now)
  /\ accessOrder' = CleanupOrder(accessOrder, store, now)
  /\ evictions' = evictions + Len(store) - Len(CleanupStore(store, now))
  /\ lastOp' = [Call("cleanup") EXCEPT
                 !.retNum = Len(store) - Len(CleanupStore(store, now))]
  /\ evictLog' = <<>>
  /\ UNCHANGED <<cfgVars, nextAccessTime, hits, misses,
                 timer, now, hung>>

Cleanup ==
  /\ Running
  /\ store' = CleanupStore(store, now)
  /\ accessOrder' = CleanupOrder(accessOrder, store, now)
  /\ lastOp' = [Call("cleanup") EXCEPT
                 !.retNum = Len(store) - Len(CleanupStore(store, now))]
  /\ evictLog' = <<>>
  /\ UNCHANGED <<cfgVars, nextAccessTime, hits, misses, evictions,
                 timer, now, hung>>

\* The interval callback () => this.cleanup(); its return value is dropped.
Sweep ==
  /\ Running
  /\ cleanupTimer
  /\ store' = CleanupStore(store, now)
  /\ accessOrder' = CleanupOrder(accessOrder, store, now)
  /\ lastOp' = Call("sweep")
  /\ evictLog' = <<>>
  /\ UNCHANGED <<cfgVars, nextAccessTime, hits, misses, evictions,
                 timer, now, hung>>

\* The interval timer firing on its own schedule, whatever the foreground
\* has done: enabled while the timer is armed and no call blocks the thread.
\* Mutant of TimerFires: the callback runs and removes nothing.
TimerFiresIdle ==
  /\ ~hung
  /\ cleanupTimer
  /\ lastOp' = Call("sweep")
  /\ evictLog' = <<>>
  /\ UNCHANGED <<store, accessOrder, cfgVars, nextAccessTime, hits, misses,
                 evictions, timer, now, hung, steps>>

TimerFires ==
  /\ ~hung
  /\ cleanupTimer
  /\ store' = CleanupStore(store, now)
  /\ accessOrder' = CleanupOrder(accessOrder, store, now)
  /\ lastOp' = Call("sweep")
  /\ evictLog' = <<>>
  /\ UNCHANGED <<cfgVars, nextAccessTime, hits, misses, evictions,
                 timer, now, hung, steps>>

\* --------------------------------------------------------------- destroy
\* Mutant of Destroy: the table is cleared and the timer is left armed.
DestroyKeepsTimer ==
  /\ Running
  /\ store' = <<>>
  /\ accessOrder' = <<>>
  /\ nextAccessTime' = 1
  /\ hits' = 0
  /\ misses' = 0
  /\ evictions' = 0
  /\ lastOp' = [Call("destroy") EXCEPT !.path = "released"]
  /\ evictLog' = <<>>
  /\ UNCHANGED <<cfgVars, timer, now, hung>>

\* lastOp.path tells whether the call found the timer armed ("released")
\* or not ("idle").
Destroy ==
  /\ Running
  /\ cleanupTimer' = FALSE
  /\ clearIntervalCalls' = IF cleanupTimer THEN clearIntervalCalls + 1
                                           ELSE clearIntervalCalls
  /\ store' = <<>>
  /\ accessOrder' = <<>>
  /\ nextAccessTime' = 1
  /\ hits' = 0
  /\ misses' = 0
  /\ evictions' = 0
  /\ lastOp' = [Call("destroy") EXCEPT
                 !.path = IF cleanupTimer THEN "released" ELSE "idle"]
  /\ evictLog' = <<>>
  /\ UNCHANGED <<cfgVars, now, hung>>

\* ------------------------------------------------------------------ keys
\* A string as the sequence of its characters (UTF-16 code units), for the
\* strings of at most MaxGlobLen characters over Alphabet.
GlobSeqs == UNION {[1..n -> Alphabet] : n \in 0..MaxGlobLen}

RECURSIVE Join(_)
Join(c) == IF c = <<>> THEN "" ELSE Head(c) \o Join(Tail(c))

GlobStrings == {Join(c) : c \in GlobSeqs}

Chars(str) == CHOOSE c \in [1..Len(str) -> Alphabet] : Join(c) = str

\* .replace(/[.+^${}()|[\]\\]/g, '\\$&')
RECURSIVE EscapeRegexChars(_)
EscapeRegexChars(p) ==
  IF p = <<>> THEN <<>>
  ELSE (IF Head(p) \in EscapeClass THEN <<"\\", Head(p)>> ELSE <<Head(p)>>)
       \o EscapeRegexChars(Tail(p))

\* .replace(/\*/g, '.*')
RECURSIVE ReplaceStars(_)
ReplaceStars(p) ==
  IF p = <<>> THEN <<>>
  ELSE (IF Head(p) = "*" THEN <<".", "*">> ELSE <<Head(p)>>)
       \o ReplaceStars(Tail(p))

\* .replace(/\?/g, '.')
RECURSIVE ReplaceQuestions(_)
ReplaceQuestions(p) ==
  IF p = <<>> THEN <<>>
  ELSE (IF Head(p) = "?" THEN <<".">> ELSE <<Head(p)>>)
       \o ReplaceQuestions(Tail(p))

\* The source of the regular expression between ^ and $.
GlobToRegex(pattern) ==
  ReplaceQuestions(ReplaceStars(EscapeRegexChars(pattern)))

\* new RegExp(source): the atoms of the source.  A backslash makes the next
\* character a literal, an unescaped dot is the wildcard, any other character
\* is a literal; an atom followed by * is repeated zero or more times.
RECURSIVE RegexAtoms(_)
RegexAtoms(src) ==
  IF src = <<>> THEN <<>>
  ELSE LET esc  == Head(src) = "\\" /\ Len(src) >= 2
           rest == SubSeq(src, IF esc THEN 3 ELSE 2, Len(src))
           star == rest # <<>> /\ Head(rest) = "*"
           atom == [kind |-> IF ~esc /\ Head(src) = "." THEN "dot" ELSE "char",
                    ch   |-> IF esc THEN src[2] ELSE Head(src),
                    star |-> star]
       IN <<atom>> \o RegexAtoms(IF star THEN Tail(rest) ELSE rest)

\* Without the s flag the dot matches no line terminator.
AtomMatches(atom, c) ==
  IF atom.kind = "dot" THEN c \notin LineTerminators ELSE c = atom.ch

\* regex.test(key) for a regular expression anchored at both ends.
RECURSIVE RegexTest(_, _)
RegexTest(atoms, str) ==
  IF atoms = <<>> THEN str = <<>>
  ELSE IF Head(atoms).star
    THEN \/ RegexTest(Tail(atoms), str)
         \/ /\ str # <<>>
            /\ AtomMatches(Head(atoms), Head(str))
            /\ RegexTest(atoms, Tail(str))
    ELSE /\ str # <<>>
         /\ AtomMatches(Head(atoms), Head(str))
         /\ RegexTest(Tail(atoms), Tail(str))

\* keys(pattern): pattern is <<>> (not provided) or <<p>>.  `!pattern` is
\* true for the empty string too.
KeysResult(s, pattern) ==
  LET allKeys == [i \in 1..Len(s) |-> s[i].key] IN
    IF pattern = <<>> \/ pattern[1] = ""
      THEN allKeys
      ELSE LET regex == RegexAtoms(GlobToRegex(Chars(pattern[1])))
           IN SelectSeq(allKeys, LAMBDA k : RegexTest(regex, Chars(k)))

KeysCall(pattern) ==
  /\ Running
  /\ lastOp' = [Call("keys") EXCEPT !.pattern = pattern,
                                      !.retKeys = KeysResult(store, pattern)]
  /\ evictLog' = <<>>
  /\ UNCHANGED <<store, accessOrder, nextAccessTime, cfgVars, hits, misses,
                 evictions, timer, now, hung>>

\* ------------------------------------------------------------------ size
\* Mutant of Size: the entries that have not expired are counted.
SizeOfLive ==
  /\ Running
  /\ lastOp' = [Call("size") EXCEPT
                 !.retNum = Len(SelectSeq(store,
                                  LAMBDA e : ~IsExpired(e, now)))]
  /\ evictLog' = <<>>
  /\ UNCHANGED <<store, accessOrder, nextAccessTime, cfgVars, hits, misses,
                 evictions, timer, now, hung>>

Size ==
  /\ Running
  /\ lastOp' = [Call("size") EXCEPT !.retNum = Len(store)]
  /\ evictLog' = <<>>
  /\ UNCHANGED <<store, accessOrder, nextAccessTime, cfgVars, hits, misses,
                 evictions, timer, now, hung>>

\* ----------------------------------------------------------------- stats
\* hits / totalRequests as the fraction [num, den]; 0 is 0/1.
\* Mutant of HitRate: the hits over the misses.
HitRateOverMisses(h, m) ==
  IF h + m > 0 THEN [num |-> h, den |-> m] ELSE [num |-> 0, den |-> 1]

HitRate(h, m) ==
  IF h + m > 0 THEN [num |-> h, den |-> h + m] ELSE [num |-> 0, den |-> 1]

\* Mutant of Stats: reading the counters resets them.
StatsResetsCounters ==
  /\ Running
  /\ lastOp' = IF EstimateThrows(store)
                 THEN [Call("stats") EXCEPT !.outcome = "raised"]
                 ELSE [Call("stats") EXCEPT
                         !.retNum = EstimateMemoryUsage(store),
                         !.retStats =
                            [size |-> Len(store), maxSize |-> maxSize,
                             hits |-> hits, misses |-> misses,
                             hitRate |-> HitRate(hits, misses),
                             evictions |-> evictions]]
  /\ hits' = 0
  /\ misses' = 0
  /\ evictions' = 0
  /\ evictLog' = <<>>
  /\ UNCHANGED <<store, accessOrder, nextAccessTime, cfgVars,
                 timer, now, hung>>

\* stats() changes nothing; it raises when estimateMemoryUsage throws.
\* retNum is memoryUsage, retStats the other fields of the result.
Stats ==
  /\ Running
  /\ lastOp' = IF EstimateThrows(store)
                 THEN [Call("stats") EXCEPT !.outcome = "raised"]
                 ELSE [Call("stats") EXCEPT
                         !.retNum = EstimateMemoryUsage(store),
                         !.retStats =
                            [size |-> Len(store), maxSize |-> maxSize,
                             hits |-> hits, misses |-> misses,
                             hitRate |-> HitRate(hits, misses),
                             evictions |-> evictions]]
  /\ evictLog' = <<>>
  /\ UNCHANGED <<store, accessOrder, nextAccessTime, cfgVars, hits, misses,
                 evictions, timer, now, hung>>

\* ----------------------------------------------------------------- clock
\* Time passes between calls, one tick between two of them (two ticks in a
\* row would be one longer tick).  A blocked call blocks the clock's
\* observers too, so the model stops with it.
Tick(d) ==
  /\ Running
  /\ lastOp.op # "tick"
  /\ now' = now + d
  /\ lastOp' = Call("tick")
  /\ evictLog' = <<>>
  /\ UNCHANGED <<store, accessOrder, nextAccessTime, cfgVars, hits, misses,
                 evictions, timer, hung>>

Next ==
  \/ \E k \in Keys : Get(k)
  \/ \E k \in Keys : Has(k)
  \/ \E k \in Keys, a \in SetArgs : Set(k, a[1], a[2])
  \/ \E k \in Keys : Delete(k)
  \/ Clear
  \/ Cleanup
  \/ Sweep
  \/ Destroy
  \/ Size
  \/ Stats
  \/ \E d \in TickSizes : Tick(d)

Spec == Init /\ [][Next]_vars

\* keys(pattern) over every glob string as key and as pattern, and keys():
\* the keys are stored, with the default ttl, in a cache of two entries with
\* no eviction, time passes, then keys is called.  keys changes nothing, so a
\* run ends with its keys call.
GlobInit == Init /\ maxSize = 2 /\ maxMemory = 1000 /\ evictionPolicy = "lru"

GlobNext ==
  /\ lastOp.op # "keys"
  /\ \/ \E k \in GlobStrings : Len(store) < maxSize /\ Set(k, "a", <<>>)
     \/ \E p \in GlobStrings : KeysCall(<<p>>)
     \/ KeysCall(<<>>)
     \/ \E d \in TickSizes : Tick(d)

GlobSpec == GlobInit /\ [][GlobNext]_vars

\* The cache left to its timer: entries are stored, time passes, the cache
\* may be destroyed, and no call reads or cleans the table.  setInterval
\* keeps calling the callback until clearInterval, so the timer's step is
\* taken again and again while it is enabled.
LiveNext ==
  \/ \E k \in Keys, a \in SetArgs : Set(k, a[1], a[2])
  \/ \E d \in TickSizes : Tick(d)
  \/ Destroy
  \/ TimerFires

LiveSpec == Init /\ [][LiveNext]_vars /\ WF_vars(TimerFires)

\* ------------------------------------------- the two reclamation paths
\* Lookups, which remove the expired entry they find, and cleanup(), which
\* removes every expired entry, on a cache filled by sets as time passes.
ReclaimNext ==
  \/ \E k \in Keys : Get(k)
  \/ \E k \in Keys : Has(k)
  \/ \E k \in Keys, a \in SetArgs : Set(k, a[1], a[2])
  \/ Cleanup
  \/ \E d \in TickSizes : Tick(d)

ReclaimSpec == Init /\ [][ReclaimNext]_vars

\* ------------------------------------------------ a negative maxSize
\* new MemoryCache({maxSize: -1}) followed by any calls: the options object
\* is copied as given.
NegativeLimits == { [maxSize |-> -1, maxMemory |-> 1000, defaultTTL |-> 0] }

MisconfInit == \E c \in NegativeLimits : Constructed(c)

MisconfSpec == MisconfInit /\ [][Next]_vars

\* ---------------------------------------------------- the Cache facade
\* src/src/cache.ts: a Cache holds a key prefix and a backend and passes
\* every call to the backend under the prefixed key.  Cache objects created
\* with the same customBackend share one MemoryCache; here every facade of
\* Prefixes is a view of the one backend of the state.
Prefixes       == {"a?", "ab", "b"}
FacadeKeys     == {"a", "\n"}
FactoryResults == {"a", Null}
FacadePatterns == {<<>>, <<"*">>}

\* A backend that no run of MaxFacadeCalls calls can fill.
SharedLimits == { [maxSize |-> MaxFacadeCalls, maxMemory |-> 1000,
                   defaultTTL |-> 0] }

\* prefixKey
PrefixKey(prefix, key) == IF prefix # "" THEN prefix \o key ELSE key

\* String.prototype.slice(n)
Slice(str, n) == Join(SubSeq(Chars(str), n + 1, Len(str)))

\* What lastOp holds after the facade calls that are more than one backend
\* call: the facade's prefix, the arguments, the number of times the
\* factory was invoked, and what was returned.
FacadeCall(op, prefix) ==
  [op |-> op, prefix |-> prefix, key |-> "", value |-> Null,
   pattern |-> <<>>, outcome |-> "returned", factoryCalls |-> 0,
   retVal |-> Null, retNum |-> 0, retKeys |-> <<>>]

FacadeGet(prefix, key) == Get(PrefixKey(prefix, key))

FacadeSet(prefix, key, value, ttl) == Set(PrefixKey(prefix, key), value, ttl)

FacadeHas(prefix, key) == Has(PrefixKey(prefix, key))

FacadeDelete(prefix, key) == Delete(PrefixKey(prefix, key))

\* clear(): with a prefix, backend.keys(prefix + '*') and a delete of each
\* key returned; without one, backend.clear().
FacadeClear(prefix) ==
  /\ Running
  /\ lastOp' = FacadeCall("Cache.clear", prefix)
  /\ evictLog' = <<>>
  /\ IF prefix # ""
       THEN LET keys == KeysResult(store, <<prefix \o "*">>)
                gone == {keys[i] : i \in 1..Len(keys)}
            IN /\ store' = SelectSeq(store, LAMBDA e : e.key \notin gone)
               /\ accessOrder' =
                    SelectSeq(accessOrder, LAMBDA e : e.key \notin gone)
               /\ UNCHANGED <<nextAccessTime, hits, misses, evictions>>
       ELSE /\ store' = <<>>
            /\ accessOrder' = <<>>
            /\ nextAccessTime' = 1
            /\ hits' = 0
            /\ misses' = 0
            /\ evictions' = 0
  /\ UNCHANGED <<cfgVars, timer, now, hung>>

\* keys(pattern?): the backend keys matching prefix + pattern, or
\* prefix + '*' when the pattern is undefined or '', with the first
\* prefix.length characters sliced off.
FacadeKeysResult(s, prefix, pattern) ==
  LET searchPattern == IF pattern # <<>> /\ pattern[1] # ""
                         THEN prefix \o pattern[1]
                         ELSE prefix \o "*"
      prefixedKeys == KeysResult(s, <<searchPattern>>)
  IN IF prefix # ""
       THEN [i \in 1..Len(prefixedKeys) |->
               Slice(prefixedKeys[i], Len(prefix))]
       ELSE prefixedKeys

FacadeKeysCall(prefix, pattern) ==
  /\ Running
  /\ lastOp' = [FacadeCall("Cache.keys", prefix) EXCEPT
                 !.pattern = pattern,
                 !.retKeys = FacadeKeysResult(store, prefix, pattern)]
  /\ evictLog' = <<>>
  /\ UNCHANGED <<store, accessOrder, nextAccessTime, cfgVars, hits, misses,
                 evictions, timer, now, hung>>

\* size(): the backend's size without a prefix, else the number of backend
\* keys matching prefix + '*'.
FacadeSize(prefix) ==
  /\ Running
  /\ lastOp' = [FacadeCall("Cache.size", prefix) EXCEPT
                 !.retNum = IF prefix = ""
                              THEN Len(store)
                              ELSE Len(KeysResult(store, <<prefix \o "*">>))]
  /\ evictLog' = <<>>
  /\ UNCHANGED <<store, accessOrder, nextAccessTime, cfgVars, hits, misses,
                 evictions, timer, now, hung>>

\* getOrSet(key, factory, ttl): existing = get(key); when existing !== null
\* it is returned; else value = factory(), set(key, value, ttl), and value
\* is returned.  result is what the factory returns when invoked.
GetOrSet(prefix, key, result, ttl) ==
  /\ Running
  /\ LET k == PrefixKey(prefix, key)
         g == GetEffect(k)
         r == SetEffectOn(g.store, g.accessOrder, k, result, ttl)
     IN /\ IF g.ret # Null
             THEN /\ store' = g.store
                  /\ accessOrder' = g.accessOrder
                  /\ nextAccessTime' = g.nextAccessTime
                  /\ lastOp' = [FacadeCall("Cache.getOrSet", prefix) EXCEPT
                                 !.key = key, !.value = result,
                                 !.retVal = g.ret]
                  /\ evictLog' = <<>>
                  /\ UNCHANGED <<evictions, hung>>
             ELSE /\ store' = r.store
                  /\ accessOrder' = r.accessOrder
                  /\ nextAccessTime' = IF evictionPolicy = "lru"
                                         THEN g.nextAccessTime + 1
                                         ELSE g.nextAccessTime
                  /\ evictions' = r.evictions
                  /\ evictLog' = r.log
                  /\ hung' = r.hang
                  /\ lastOp' = [FacadeCall("Cache.getOrSet", prefix) EXCEPT
                                 !.key = key, !.value = result,
                                 !.factoryCalls = 1,
                                 !.outcome = IF r.hang THEN "hang"
                                             ELSE IF r.raised THEN "raised"
                                             ELSE "returned",
                                 !.retVal = result]
        /\ hits' = g.hits
        /\ misses' = g.misses
  /\ UNCHANGED <<cfgVars, timer, now>>

FacadeInit ==
  /\ \E c \in SharedLimits : Constructed(c)
  /\ evictionPolicy = "lru"

\* Runs of at most MaxFacadeCalls facade calls; keys and size change
\* nothing, so a run ends with them.
FacadeNext ==
  /\ steps < MaxFacadeCalls
  /\ lastOp.op \notin {"Cache.keys", "Cache.size"}
  /\ \/ \E p \in Prefixes, k \in FacadeKeys : FacadeGet(p, k)
     \/ \E p \in Prefixes, k \in FacadeKeys : FacadeHas(p, k)
     \/ \E p \in Prefixes, k \in FacadeKeys, v \in FactoryResults :
          FacadeSet(p, k, v, <<>>)
     \/ \E p \in Prefixes, k \in FacadeKeys : FacadeDelete(p, k)
     \/ \E p \in Prefixes : FacadeClear(p)
     \/ \E p \in Prefixes, pat \in FacadePatterns : FacadeKeysCall(p, pat)
     \/ \E p \in Prefixes : FacadeSize(p)
     \/ \E p \in Prefixes, k \in FacadeKeys, v \in FactoryResults :
          GetOrSet(p, k, v, <<>>)

FacadeSpec == FacadeInit /\ [][FacadeNext]_vars

\* ====================================================================
\* Properties
\* ====================================================================

\* The entry a call's key names in the table before the call.
EntryBytes(k, v) ==
  Len(k) * BytesPerChar + JsonLength(v) * BytesPerChar + MetadataOverhead

\* The ttl has elapsed at time t for an entry created at createdAt with a
\* positive ttl when more than ttl has passed since.
Elapsed(e, t) == e.ttl > 0 /\ t > e.createdAt + e.ttl

\* C1: once every set has returned (none is stuck, and none raised, which
\* only a self-referential value in the table makes a set do), the table
\* holds at most maxSize entries.
\* Fails in the code: evictOne never removes the empty-string key.
C1_CapacityInvariant ==
  (~hung /\ ~EstimateThrows(store)) => Len(store) <= maxSize

\* C2: a get(k) that directly follows set(k, v) returns v.
\* Fails in the code: checkMemoryLimits empties the table, the new entry
\* included, once the estimate exceeds maxMemory.
C2_RoundTrip ==
  [][ (lastOp.op = "set" /\ lastOp'.op = "get" /\ lastOp'.key = lastOp.key)
        => lastOp'.retVal = lastOp.value ]_vars

\* C3: under lru every eviction removes the key with the smallest
\* order-index value, which is a key whose last touch is not later than any
\* other resident key's, and removes nothing else; after a single capacity
\* eviction the table holds the other keys and the inserted one.
C3_LruVictim ==
  evictionPolicy = "lru" =>
    /\ \A i \in 1..Len(evictLog) :
         LET e == evictLog[i] IN
           /\ MapHas(e.store, e.key)
           /\ MapKeys(e.accessOrder) = MapKeys(e.store)
           /\ ~MapHas(e.after, e.key)
           /\ \A k \in MapKeys(e.store) \ {e.key} :
                /\ MapGet(e.accessOrder, e.key).time
                     < MapGet(e.accessOrder, k).time
                /\ MapGet(e.store, e.key).accessedAt
                     <= MapGet(e.store, k).accessedAt
                /\ MapHas(e.after, k)
                /\ MapGet(e.after, k) = MapGet(e.store, k)
    /\ (Len(evictLog) = 1 /\ evictLog[1].phase = "capacity")
         => MapKeys(store) = MapKeys(evictLog[1].after) \cup {lastOp.key}

\* A set at capacity evicted the key inserted second and kept the key
\* inserted first, after a read.
C3_Witness ==
  /\ evictionPolicy = "lru"
  /\ lastOp.op = "set"
  /\ hits >= 1
  /\ Len(evictLog) = 1
  /\ evictLog[1].phase = "capacity"
  /\ Len(evictLog[1].store) = 2
  /\ evictLog[1].key = evictLog[1].store[2].key
  /\ MapHas(store, evictLog[1].store[1].key)

\* The evictions of the call that ends in the primed state remove a key of
\* smallest createdAt and nothing else.
FifoEvictionsOldest(log) ==
  \A i \in 1..Len(log) :
    LET e == log[i] IN
      /\ MapHas(e.store, e.key)
      /\ ~MapHas(e.after, e.key)
      /\ \A k \in MapKeys(e.store) \ {e.key} :
           /\ MapGet(e.store, e.key).createdAt <= MapGet(e.store, k).createdAt
           /\ MapHas(e.after, k)

\* C4 as stated: under fifo an eviction removes a key of smallest createdAt,
\* and no get or has changes the key the next eviction would remove.
C4_FifoReadsKeepVictim ==
  [][ evictionPolicy = "fifo" =>
        /\ FifoEvictionsOldest(evictLog')
        /\ lastOp'.op \in {"get", "has"} =>
             KeyToEvict(store', accessOrder', "fifo")
               = KeyToEvict(store, accessOrder, "fifo") ]_vars

\* C4 amended: under fifo an eviction removes a key of smallest createdAt;
\* a get or has that removes no key leaves the next victim unchanged, and
\* one that finds its key expired removes only that key, so the next victim
\* is the one the remaining keys had before the call.
C4_FifoVictim ==
  [][ evictionPolicy = "fifo" =>
        /\ FifoEvictionsOldest(evictLog')
        /\ lastOp'.op \in {"get", "has"} =>
             LET remaining ==
                   SelectSeq(store, LAMBDA e : MapHas(store', e.key))
             IN /\ MapKeys(store) \ MapKeys(store') \subseteq {lastOp'.key}
                /\ MapKeys(store') \subseteq MapKeys(store)
                /\ MapKeys(store') # MapKeys(store) =>
                     Elapsed(MapGet(store, lastOp'.key), now)
                /\ KeyToEvict(store', accessOrder', "fifo")
                     = KeyToEvict(remaining, accessOrder, "fifo") ]_vars

\* A fifo eviction, after a read, from a table of two keys.
C4_Witness ==
  /\ evictionPolicy = "fifo"
  /\ lastOp.op = "set"
  /\ hits >= 1
  /\ Len(evictLog) = 1
  /\ Len(evictLog[1].store) = 2
  /\ evictLog[1].key = evictLog[1].store[1].key

\* C5: set stores the entry with the effective ttl (the argument, or
\* defaultTTL without one); a get or has of a resident key with a positive
\* ttl returns the value while the ttl has not elapsed, and once it has
\* elapsed returns absent, removes the entry and its order-index entry and
\* adds one miss.
C5_TtlExpiry ==
  [][ /\ (lastOp'.op = "set" /\ MapHas(store', lastOp'.key)) =>
           LET e == MapGet(store', lastOp'.key) IN
             /\ e.ttl = IF lastOp'.ttl = <<>> THEN defaultTTL
                        ELSE lastOp'.ttl[1]
             /\ e.createdAt = now
             /\ e.value = lastOp'.value
      /\ (/\ lastOp'.op \in {"get", "has"}
          /\ MapHas(store, lastOp'.key)
          /\ MapGet(store, lastOp'.key).ttl > 0) =>
           LET e == MapGet(store, lastOp'.key) IN
             IF Elapsed(e, now)
               THEN /\ lastOp'.retVal = Null
                    /\ lastOp'.retBool = FALSE
                    /\ ~MapHas(store', lastOp'.key)
                    /\ ~MapHas(accessOrder', lastOp'.key)
                    /\ misses' = misses + 1
                    /\ hits' = hits
               ELSE /\ MapHas(store', lastOp'.key)
                    /\ lastOp'.op = "get" => lastOp'.retVal = e.value
                    /\ hits' = hits + 1
                    /\ misses' = misses ]_vars

\* A get found its key expired and removed it.
C5_Witness ==
  /\ lastOp.op = "get"
  /\ lastOp.path = "expired"
  /\ lastOp.retVal = Null
  /\ misses = 1
  /\ ~MapHas(store, lastOp.key)

\* C6: an entry whose ttl is zero or negative survives every get, has,
\* cleanup, sweep and clock tick with its value, and a get of it returns
\* the value.
C6_NonExpiry ==
  [][ \A i \in 1..Len(store) :
        (/\ store[i].ttl <= 0
         /\ lastOp'.op \in {"get", "has", "cleanup", "sweep", "tick", "stats"})
        => /\ MapHas(store', store[i].key)
           /\ MapGet(store', store[i].key).value = store[i].value
           /\ (lastOp'.op = "get" /\ lastOp'.key = store[i].key)
                => lastOp'.retVal = store[i].value ]_vars

\* An entry with a ttl of zero or less, created at time 1, is read at
\* time 3.
C6_Witness ==
  /\ now = 3
  /\ lastOp.op = "get"
  /\ lastOp.path = "hit"
  /\ MapHas(store, lastOp.key)
  /\ MapGet(store, lastOp.key).ttl <= 0
  /\ MapGet(store, lastOp.key).createdAt = 1

\* C7: neither set nor stats raises, whatever the value.
\* Fails in the code: JSON.stringify throws on a self-referential value.
C7_SetNeverRaises ==
  lastOp.op \in {"set", "stats"} => lastOp.outcome # "raised"

\* C8: the memory-limit loop evicts only while the estimate is above
\* maxMemory: before each of its evictions the table's estimate exceeds the
\* limit.  Fails in the code: the estimate is not recomputed in the loop.
C8_MemoryEvictionsNeeded ==
  \A i \in 1..Len(evictLog) :
    evictLog[i].phase = "memory" =>
      EstimateMemoryUsage(evictLog[i].store) > maxMemory

\* C9: a set of an entry that alone exceeds maxMemory returns and leaves
\* that entry as the only one in the table.
\* Fails in the code: the loop evicts the entry just inserted.
C9_OversizedEntryKept ==
  (/\ lastOp.op = "set"
   /\ ~StringifyThrows(lastOp.value)
   /\ EntryBytes(lastOp.key, lastOp.value) > maxMemory)
  => /\ lastOp.outcome = "returned"
     /\ Len(store) = 1
     /\ store[1].key = lastOp.key
     /\ store[1].value = lastOp.value

\* C10: has(k) is true exactly when k is in the table and not expired, and
\* get(k) returns absent for a key that is not in the table or is expired.
\* Fails in the code: has is get(k) !== null, false for a stored null.
C10_HasIffResident ==
  [][ LET k == lastOp'.key
          live == MapHas(store, k) /\ ~Elapsed(MapGet(store, k), now)
      IN /\ lastOp'.op = "has" => lastOp'.retBool = live
         /\ (lastOp'.op = "get" /\ ~live) => lastOp'.retVal = Null ]_vars

\* C11: delete(k) returns true exactly when k was in the table; afterwards
\* k is in neither the table nor the order index, every other entry of both
\* is as it was, hits, misses and evictions are as they were, and the call
\* returns normally whatever the key.
C11_DeleteFrame ==
  [][ lastOp'.op = "delete" =>
        LET k == lastOp'.key IN
          /\ lastOp'.outcome = "returned"
          /\ lastOp'.retBool = MapHas(store, k)
          /\ MapKeys(store') = MapKeys(store) \ {k}
          /\ MapKeys(accessOrder') = MapKeys(accessOrder) \ {k}
          /\ \A j \in MapKeys(store') : MapGet(store', j) = MapGet(store, j)
          /\ \A j \in MapKeys(accessOrder') :
               MapGet(accessOrder', j) = MapGet(accessOrder, j)
          /\ hits' = hits
          /\ misses' = misses
          /\ evictions' = evictions ]_vars

\* A delete removed a key that had been read, and left another key, under
\* lru, where both keys had an order-index entry.
C11_Witness ==
  /\ lastOp.op = "delete"
  /\ lastOp.retBool
  /\ evictionPolicy = "lru"
  /\ hits >= 1
  /\ Len(store) = 1
  /\ Len(accessOrder) = 1
  /\ ~MapHas(store, lastOp.key)

\* C12: clear leaves the table and the order index empty and hits, misses
\* and evictions at zero; a size() that directly follows returns 0 and a
\* stats() that directly follows reports a hit rate of 0.
C12_ClearResets ==
  [][ /\ lastOp'.op = "clear" =>
           /\ lastOp'.outcome = "returned"
           /\ store' = <<>>
           /\ accessOrder' = <<>>
           /\ hits' = 0
           /\ misses' = 0
           /\ evictions' = 0
      /\ (lastOp.op = "clear" /\ lastOp'.op = "size") => lastOp'.retNum = 0
      /\ (lastOp.op = "clear" /\ lastOp'.op = "stats") =>
           /\ lastOp'.outcome = "returned"
           /\ lastOp'.retStats.size = 0
           /\ lastOp'.retStats.hitRate.num = 0
           /\ lastOp'.retStats.evictions = 0 ]_vars

\* A clear as the fourth step of a run, at a later time than the start.
C12_Witness ==
  /\ lastOp.op = "clear"
  /\ steps = 4
  /\ now > 1
  /\ Len(store) = 0
  /\ hits + misses + evictions = 0

\* C13: a get or has adds one to hits when its key is in the table and not
\* expired and one to misses otherwise, and leaves the other counter alone;
\* clear (and destroy, which calls it) sets both to zero; no other step
\* changes them; stats returns and reports hits, misses and the hit rate
\* hits / (hits + misses), 0 when there were no requests.
\* Fails in the code: stats raises while a self-referential value is stored.
C13_HitMissAccounting ==
  [][ /\ lastOp'.op \in {"get", "has"} =>
           LET k == lastOp'.key IN
             IF MapHas(store, k) /\ ~Elapsed(MapGet(store, k), now)
               THEN hits' = hits + 1 /\ misses' = misses
               ELSE hits' = hits /\ misses' = misses + 1
      /\ lastOp'.op \in {"clear", "destroy"} => (hits' = 0 /\ misses' = 0)
      /\ lastOp'.op \notin {"get", "has", "clear", "destroy"} =>
           (hits' = hits /\ misses' = misses)
      /\ lastOp'.op = "stats" =>
           LET r == lastOp'.retStats IN
             /\ lastOp'.outcome = "returned"
             /\ r.hits = hits
             /\ r.misses = misses
             /\ r.hitRate.den > 0
             /\ IF hits + misses = 0
                  THEN r.hitRate.num = 0
                  ELSE r.hitRate.num * (hits + misses) = hits * r.hitRate.den
    ]_vars

\* C14: cleanup removes from the table and the order index exactly the keys
\* whose entry has expired, keeps every other entry as it was, and returns
\* the number of keys it removed.
C14_CleanupExact ==
  [][ lastOp'.op = "cleanup" =>
        LET expired == {k \in MapKeys(store) : Elapsed(MapGet(store, k), now)}
        IN /\ lastOp'.outcome = "returned"
           /\ MapKeys(store') = MapKeys(store) \ expired
           /\ \A k \in MapKeys(store') : MapGet(store', k) = MapGet(store, k)
           /\ MapKeys(accessOrder') = MapKeys(accessOrder) \ expired
           /\ \A k \in MapKeys(accessOrder') :
                MapGet(accessOrder', k) = MapGet(accessOrder, k)
           /\ lastOp'.retNum = Cardinality(expired) ]_vars

\* A cleanup removed one key and kept another, which does not expire or has
\* not expired yet.
C14_Witness ==
  /\ lastOp.op = "cleanup"
  /\ lastOp.retNum = 1
  /\ Len(store) = 1
  /\ evictionPolicy = "lru"
  /\ Len(accessOrder) = 1

\* C15: after a cleanup no entry of the table is expired; a cleanup that
\* starts with no expired entry, as one that directly follows a cleanup
\* does, returns 0 and changes nothing.
C15_CleanupIdempotent ==
  [][ /\ lastOp'.op = "cleanup" =>
           \A i \in 1..Len(store') : ~Elapsed(store'[i], now')
      /\ (/\ lastOp'.op = "cleanup"
          /\ \/ lastOp.op = "cleanup"
             \/ \A i \in 1..Len(store) : ~Elapsed(store[i], now)) =>
           /\ lastOp'.retNum = 0
           /\ store' = store
           /\ accessOrder' = accessOrder
           /\ <<hits', misses', evictions'>> = <<hits, misses, evictions>>
    ]_vars

\* A cleanup that returned 0 as the fourth step of a run of one set and one
\* tick, with the table empty and the timer still armed.
C15_Witness ==
  /\ lastOp.op = "cleanup"
  /\ lastOp.retNum = 0
  /\ steps = 4
  /\ now = 3
  /\ store = <<>>
  /\ evictionPolicy = "lru"
  /\ nextAccessTime = 2
  /\ misses = 0
  /\ cleanupTimer

\* C16: destroy returns with the timer released and the table empty;
\* clearInterval is called once however often destroy is called; the sweep
\* never fires once the timer is released.
C16_DestroyStopsSweep ==
  /\ clearIntervalCalls <= 1
  /\ cleanupTimer <=> clearIntervalCalls = 0
  /\ ~cleanupTimer => lastOp.op # "sweep"
  /\ lastOp.op = "destroy" =>
       /\ lastOp.outcome = "returned"
       /\ ~cleanupTimer
       /\ clearIntervalCalls = 1
       /\ Len(store) = 0
       /\ Len(accessOrder) = 0

\* A destroy that found the timer already released, at the end of a run.
C16_Witness ==
  /\ lastOp.op = "destroy"
  /\ lastOp.path = "idle"
  /\ clearIntervalCalls = 1
  /\ steps = 4

\* The keys of the table, in table order, that match the pattern under
\* glob rules: * is any run of characters, ? is one character, any other
\* character is itself, and the whole key is matched.
RECURSIVE GlobMatches(_, _)
GlobMatches(p, str) ==
  IF p = <<>> THEN str = <<>>
  ELSE IF Head(p) = "*"
    THEN \/ GlobMatches(Tail(p), str)
         \/ (str # <<>> /\ GlobMatches(p, Tail(str)))
    ELSE /\ str # <<>>
         /\ (Head(p) = "?" \/ Head(p) = Head(str))
         /\ GlobMatches(Tail(p), Tail(str))

\* C18: keys(pattern) returns, in table order, exactly the keys of the table
\* that match the pattern under glob rules, for every pattern string.
\* Fails in the code: the empty pattern returns every key, and the dot that
\* * and ? become matches no line terminator.
C18_KeysGlob ==
  (lastOp.op = "keys" /\ lastOp.pattern # <<>>) =>
    lastOp.retKeys =
      SelectSeq([i \in 1..Len(store) |-> store[i].key],
                LAMBDA k : GlobMatches(Chars(lastOp.pattern[1]), Chars(k)))

\* C19: keys, with or without a pattern, returns no key whose entry has
\* expired.
\* Fails in the code: keys reads the table without looking at expiresAt.
C19_KeysSkipExpired ==
  lastOp.op = "keys" =>
    \A i \in 1..Len(lastOp.retKeys) :
      ~Elapsed(MapGet(store, lastOp.retKeys[i]), now)

\* C20: size() returns the number of entries in the table, expired ones
\* included.
C20_SizeIsRaw ==
  lastOp.op = "size" =>
    /\ lastOp.outcome = "returned"
    /\ lastOp.retNum = Len(store)

\* size() returned 1 for a table whose only entry has expired, so that get
\* and has report its key absent.
C20_Witness ==
  /\ lastOp.op = "size"
  /\ lastOp.retNum = 1
  /\ Len(store) = 1
  /\ Elapsed(store[1], now)
  /\ GetEffect(store[1].key).ret = Null
  /\ GetEffect(store[1].key).path = "expired"

\* The entry of key k is in the table and has expired.
ExpiredIn(k) == MapHas(store, k) /\ Elapsed(MapGet(store, k), now)

\* C17: while the timer is armed and fires, an expired entry does not stay:
\* with no get, has or cleanup call it is removed from the table (or
\* replaced by a later set), unless a call blocks the thread for good.
C17_SweepRemovesExpired ==
  \A k \in Keys :
    (ExpiredIn(k) /\ cleanupTimer) ~> (~ExpiredIn(k) \/ hung)

\* The timer fired after one set and one tick, in a cache that was not
\* destroyed and has memory to spare, and left the table empty.
C17_Witness ==
  /\ lastOp.op = "sweep"
  /\ steps = 2
  /\ now = 3
  /\ cleanupTimer
  /\ maxMemory = 1000
  /\ evictions = 0
  /\ store = <<>>


\* -------------------------------------------------------------------
\* C21: a cache constructed with a negative maxSize refuses construction,
\* so no get, set, has or delete is ever executed on such an instance.
\* Fails in the code: the constructor checks none of its options.
C21_NegativeMaxSizeRejected ==
  maxSize < 0 =>
    /\ lastOp.op \notin {"get", "set", "has", "delete"}
    /\ (lastOp.op = "new" => lastOp.outcome = "raised")

\* C25: under lru, between operations, the keys of the order index are
\* exactly the keys of the table.
C25_IndexMatchesTable ==
  evictionPolicy = "lru" => MapKeys(accessOrder) = MapKeys(store)

\* A lookup under lru found its key expired and removed it while another
\* key stayed resident.
C25_Witness ==
  /\ evictionPolicy = "lru"
  /\ lastOp.op = "get"
  /\ lastOp.path = "expired"
  /\ Len(store) = 1
  /\ ~MapHas(store, lastOp.key)
  /\ ~MapHas(accessOrder, lastOp.key)

\* C26: with the memory limit not exceeded, a set of a new key into a table
\* holding maxSize entries removes exactly one resident entry and adds 1 to
\* evictions before inserting; a set of a resident key leaves the number of
\* entries and evictions as they were.
\* Fails in the code: evictOne removes nothing when its victim is ''.
C26_OneEvictionPerInsert ==
  [][ (/\ lastOp'.op = "set"
       /\ lastOp'.outcome = "returned"
       /\ \A i \in 1..Len(evictLog') : evictLog'[i].phase # "memory"
       /\ EstimateMemoryUsage(store') <= maxMemory)
      => LET k == lastOp'.key IN
           /\ (~MapHas(store, k) /\ Len(store) = maxSize) =>
                /\ Cardinality(MapKeys(store) \ MapKeys(store')) = 1
                /\ Len(store') = Len(store)
                /\ evictions' = evictions + 1
           /\ MapHas(store, k) =>
                /\ Len(store') = Len(store)
                /\ evictions' = evictions ]_vars

\* C27: has(k) on a key that is resident and not past its time-to-live
\* adds 1 to hits and, under lru, gives k the greatest order-index value,
\* so that k is not the next victim while another key is resident; has(k)
\* on an absent or expired key adds 1 to misses.
C27_HasCountsAndRefreshes ==
  [][ lastOp'.op = "has" =>
        LET k == lastOp'.key IN
          IF MapHas(store, k) /\ ~Elapsed(MapGet(store, k), now)
            THEN /\ hits' = hits + 1
                 /\ misses' = misses
                 /\ MapHas(store', k)
                 /\ evictionPolicy = "lru" =>
                      /\ MapHas(accessOrder', k)
                      /\ \A j \in MapKeys(accessOrder') \ {k} :
                           MapGet(accessOrder', j).time
                             < MapGet(accessOrder', k).time
                      /\ Len(store') >= 2 =>
                           KeyToEvict(store', accessOrder', "lru") # k
            ELSE /\ misses' = misses + 1
                 /\ hits' = hits ]_vars

\* Under lru, has returned true for the key inserted first of two, which
\* now carries the greater order-index value.
C27_Witness ==
  /\ evictionPolicy = "lru"
  /\ lastOp.op = "has"
  /\ lastOp.retBool
  /\ hits = 1
  /\ Len(store) = 2
  /\ store[1].key = lastOp.key
  /\ MapGet(accessOrder, store[1].key).time
       > MapGet(accessOrder, store[2].key).time

\* C28: a cleanup() call or a sweep leaves hits, misses and evictions as
\* they were, removes no entry that is not past its time-to-live, and
\* leaves every such entry and its order-index value as they were.
C28_SweepFrame ==
  [][ lastOp'.op \in {"cleanup", "sweep"} =>
        /\ hits' = hits
        /\ misses' = misses
        /\ evictions' = evictions
        /\ nextAccessTime' = nextAccessTime
        /\ MapKeys(store') \subseteq MapKeys(store)
        /\ MapKeys(accessOrder') \subseteq MapKeys(accessOrder)
        /\ \A k \in MapKeys(store) :
             ~Elapsed(MapGet(store, k), now) =>
               /\ MapHas(store', k)
               /\ MapGet(store', k) = MapGet(store, k)
               /\ MapHas(accessOrder, k) =>
                    /\ MapHas(accessOrder', k)
                    /\ MapGet(accessOrder', k) = MapGet(accessOrder, k) ]_vars

\* Under lru a cleanup() removed one expired entry and kept another.
C28_Witness ==
  /\ evictionPolicy = "lru"
  /\ lastOp.op = "cleanup"
  /\ lastOp.retNum = 1
  /\ Len(store) = 1
  /\ Len(accessOrder) = 1
  /\ evictions = 0

\* C29: every call returns or raises after finitely many steps: no call is
\* left running forever.
\* Fails in the code: the memory loop of set never ends once evictOne
\* removes nothing, which is the case when its victim is ''.
C29_EveryCallEnds ==
  ~hung /\ lastOp.outcome # "hang"

\* C30: a set that raises leaves the table, the order index and the
\* counters as they were before the call.
\* Fails in the code: the entry is stored before the estimate raises.
C30_RaisedSetHasNoEffect ==
  [][ (lastOp'.op = "set" /\ lastOp'.outcome = "raised") =>
        /\ store' = store
        /\ accessOrder' = accessOrder
        /\ hits' = hits
        /\ misses' = misses
        /\ evictions' = evictions ]_vars


\* -------------------------------------------------------------------
\* str starts with prefix.
StartsWith(str, prefix) ==
  /\ Len(str) >= Len(prefix)
  /\ SubSeq(Chars(str), 1, Len(prefix)) = Chars(prefix)

\* C22: clear() through a facade with a non-empty prefix removes from the
\* backend exactly the keys that start with the prefix, and leaves every
\* other backend entry as it was.
\* Fails in the code: the keys are selected by the glob prefix + '*', in
\* which a ? or * of the prefix is a wildcard and whose * matches no line
\* terminator.
C22_ClearRemovesPrefixed ==
  [][ (lastOp'.op = "Cache.clear" /\ lastOp'.prefix # "") =>
        /\ MapKeys(store') =
             {k \in MapKeys(store) : ~StartsWith(k, lastOp'.prefix)}
        /\ \A k \in MapKeys(store') : MapGet(store', k) = MapGet(store, k)
     ]_vars

\* C23: getOrSet on a key that holds a value not past its time-to-live
\* returns that value and does not invoke the factory; on a key that is
\* not in the table it invokes the factory once, stores the result under
\* the key and returns it.
\* Fails in the code: a cached null is taken for a miss.
C23_GetOrSet ==
  [][ lastOp'.op = "Cache.getOrSet" =>
        LET k == PrefixKey(lastOp'.prefix, lastOp'.key) IN
          /\ (MapHas(store, k) /\ ~Elapsed(MapGet(store, k), now)) =>
               /\ lastOp'.factoryCalls = 0
               /\ lastOp'.retVal = MapGet(store, k).value
          /\ ~MapHas(store, k) =>
               /\ lastOp'.factoryCalls = 1
               /\ lastOp'.retVal = lastOp'.value
               /\ MapHas(store', k)
               /\ MapGet(store', k).value = lastOp'.value ]_vars

\* What get(key) and keys() return through the facade of a prefix, given
\* the backend's table s at time t.
ViewGet(s, t, prefix, key) ==
  LET k == PrefixKey(prefix, key) IN
    IF MapHas(s, k) /\ ~IsExpired(MapGet(s, k), t)
      THEN MapGet(s, k).value
      ELSE Null

ViewKeys(s, prefix) ==
  LET ks == FacadeKeysResult(s, prefix, <<>>) IN
    {ks[i] : i \in 1..Len(ks)}

\* The step is a set, delete or clear made through the facade of prefix.
ActsThrough(prefix) ==
  \/ /\ lastOp'.op \in {"set", "delete"}
     /\ StartsWith(lastOp'.key, prefix)
  \/ /\ lastOp'.op = "Cache.clear"
     /\ lastOp'.prefix = prefix

\* C24: a set, delete or clear through the facade of one prefix changes
\* nothing that get, has or keys returns through the facade of another
\* prefix on the same backend.
\* Fails in the code: clear() through a prefix with a ? removes the keys
\* of every prefix that its glob matches.
C24_FacadesIsolated ==
  [][ \A p \in Prefixes : ActsThrough(p) =>
        \A q \in Prefixes \ {p} :
          /\ ViewKeys(store', q) = ViewKeys(store, q)
          /\ \A k \in FacadeKeys :
               ViewGet(store', now', q, k) = ViewGet(store, now, q, k)
     ]_vars

\* -------------------------------------------------------------------
\* What get(k) returns and what the cache holds after get(k) then
\* cleanup(), and after cleanup() then get(k), from the current state with
\* the clock unchanged.
GetThenCleanup(k) ==
  LET g == GetEffect(k) IN
    [ret |-> g.ret,
     store |-> CleanupStore(g.store, now),
     indexKeys |-> MapKeys(CleanupOrder(g.accessOrder, g.store, now)),
     hits |-> g.hits, misses |-> g.misses, evictions |-> evictions]

CleanupThenGet(k) ==
  LET g == GetEffectOn(CleanupStore(store, now),
                       CleanupOrder(accessOrder, store, now), k) IN
    [ret |-> g.ret,
     store |-> g.store,
     indexKeys |-> MapKeys(g.accessOrder),
     hits |-> g.hits, misses |-> g.misses, evictions |-> evictions]

\* C31: from every reachable state and for every key k, get(k) followed by
\* cleanup() and cleanup() followed by get(k), at the same clock value,
\* return the same value and leave the same table, the same order-index
\* keys and the same hits, misses and evictions.
C31_ReclamationCommutes ==
  \A k \in Keys : GetThenCleanup(k) = CleanupThenGet(k)

\* Under lru, after a hit, the table holds one entry past its time-to-live
\* and one that is not: the two orders remove the first and read either.
C31_Witness ==
  /\ evictionPolicy = "lru"
  /\ hits = 1
  /\ Len(store) = 2
  /\ \E k \in MapKeys(store) : IsExpired(MapGet(store, k), now)
  /\ \E k \in MapKeys(store) :
       /\ ~IsExpired(MapGet(store, k), now)
       /\ GetThenCleanup(k).ret # Null
  /\ Len(GetThenCleanup("a").store) = 1

\* C32 as stated: no call other than clear() lowers hits, misses or
\* evictions.  Fails for destroy(), which ends with a call of clear().
C32_OnlyClearResets ==
  [][ lastOp'.op # "clear" =>
        /\ hits' >= hits
        /\ misses' >= misses
        /\ evictions' >= evictions ]_vars

\* C32, amended: no call other than clear() and destroy() lowers hits,
\* misses or evictions.
C32_CountersMonotone ==
  [][ lastOp'.op \notin {"clear", "destroy"} =>
        /\ hits' >= hits
        /\ misses' >= misses
        /\ evictions' >= evictions ]_vars

\* A set returned with all three counters above zero.
C32_Witness ==
  /\ lastOp.op = "set"
  /\ lastOp.outcome = "returned"
  /\ hits = 1
  /\ misses = 1
  /\ evictions = 1

\* C33: a set of a new key into a full table whose victim is the
\* empty-string key removes that key and adds to evictions.
\* Fails in the code: `if (keyToEvict)` is false for ''.
C33_EmptyKeyEvicted ==
  [][ (/\ lastOp'.op = "set"
       /\ lastOp'.outcome = "returned"
       /\ ~MapHas(store, lastOp'.key)
       /\ Len(store) >= maxSize
       /\ MapHas(store, "")
       /\ KeyToEvict(store, accessOrder, evictionPolicy) = "")
      => /\ ~MapHas(store', "")
         /\ evictions' >= evictions + 1 ]_vars

\* C34: a set that returns on a key already in the table leaves the key in
\* the table with the value of the call, createdAt and accessedAt at the
\* time of the call, the call's effective ttl and the expiry that follows
\* from it, so the entry is live; under lru the key has the greatest
\* order-index value.
\* Fails in the code: the memory loop removes the entry just written.
C34_OverwriteReplaces ==
  [][ (/\ lastOp'.op = "set"
       /\ lastOp'.outcome = "returned"
       /\ MapHas(store, lastOp'.key))
      => LET k == lastOp'.key
             ttl == EffectiveTTL(lastOp'.ttl, defaultTTL)
         IN /\ MapHas(store', k)
            /\ MapGet(store', k).value = lastOp'.value
            /\ MapGet(store', k).createdAt = now
            /\ MapGet(store', k).accessedAt = now
            /\ MapGet(store', k).ttl = ttl
            /\ MapGet(store', k).expiresAt =
                 (IF ttl > 0 THEN now + ttl ELSE NoExpiry)
            /\ ~IsExpired(MapGet(store', k), now)
            /\ evictionPolicy = "lru" =>
                 /\ MapHas(accessOrder', k)
                 /\ \A j \in MapKeys(accessOrder') \ {k} :
                      MapGet(accessOrder', j).time
                        < MapGet(accessOrder', k).time ]_vars

\* C35: from every reachable state, a set that returns leaves every key
\* with the same get result whether or not cleanup() ran just before it.
\* Fails in the code: set counts expired entries toward maxSize, so it
\* evicts a live entry that a sweep would have made room for.
C35_SweepUnobservable ==
  \A k \in Keys, a \in SetArgs :
    LET unswept == SetEffectOn(store, accessOrder, k, a[1], a[2])
        swept == SetEffectOn(CleanupStore(store, now),
                             CleanupOrder(accessOrder, store, now),
                             k, a[1], a[2])
    IN (/\ ~unswept.hang /\ ~unswept.raised
        /\ ~swept.hang /\ ~swept.raised)
       => \A j \in Keys :
            ViewGet(unswept.store, now, "", j)
              = ViewGet(swept.store, now, "", j)

====
